---- MODULE Spec2Model ----
(***************************************************************************)
(* Model of app.py, the automated invoice extractor: the "Process & Update *)
(* Automatically" button handler (gate on the extraction reply, tax        *)
(* calculation) and update_google_sheet (header assurance, lookup by       *)
(* invoice number, overwrite or append).                                   *)
(*                                                                         *)
(* A Python string is a sequence of one-character strings.  A JSON value   *)
(* is tagged: JStr(s) or JNum(n).  A parsed JSON object (a dict) is a      *)
(* sequence of <<key, value>> pairs in insertion order.  The worksheet is  *)
(* a sequence of rows, each a sequence of cell texts.                      *)
(***************************************************************************)
EXTENDS Integers, Sequences, FiniteSets, TLC

VARIABLES
    table,         \* the rows of worksheet "Invoices".sheet1
    img_source,    \* whether an image was supplied to the last action
    response,      \* the extraction reply of the last action
    invoice_data,  \* the dict handed to update_google_sheet (<<>> if none)
    ui,            \* what the last action displayed
    sheet_result,  \* second component of update_google_sheet's result
    api_calls      \* worksheet calls made by the last action, in order

vars == <<table, img_source, response, invoice_data, ui, sheet_result, api_calls>>

----------------------------------------------------------------------------
(* Bounds of the model *)

\* update_google_sheet is not run where it would leave more than MaxRows rows.
MaxRows == 4

----------------------------------------------------------------------------
(* Strings *)

Dash == <<"-">>

S_InvoiceNumber == <<"I", "n", "v", "o", "i", "c", "e", " ", "N", "u", "m", "b", "e", "r">>

S_CustomerName == <<"C", "u", "s", "t", "o", "m", "e", "r", " ", "N", "a", "m", "e">>

S_GrossPrice == <<"G", "r", "o", "s", "s", " ", "P", "r", "i", "c", "e">>

S_Tax == <<"T", "a", "x">>

S_TotalPrice == <<"T", "o", "t", "a", "l", " ", "P", "r", "i", "c", "e">>

headers == <<S_InvoiceNumber, S_CustomerName, S_GrossPrice, S_Tax, S_TotalPrice>>

NumCols == Len(headers)

Digits == <<"0", "1", "2", "3", "4", "5", "6", "7", "8", "9">>

IsDigit(c) == \E i \in 1..Len(Digits) : Digits[i] = c

DigitVal(c) == (CHOOSE i \in 1..Len(Digits) : Digits[i] = c) - 1

IsSpace(c) == c \in {" ", "\t", "\n", "\r"}

RECURSIVE LStrip(_)
LStrip(s) == IF s # <<>> /\ IsSpace(Head(s)) THEN LStrip(Tail(s)) ELSE s

RECURSIVE RStrip(_)
RStrip(s) ==
    IF s # <<>> /\ IsSpace(s[Len(s)]) THEN RStrip(SubSeq(s, 1, Len(s) - 1)) ELSE s

\* str.strip()
Strip(s) == RStrip(LStrip(s))

\* str.replace(c, ""), for a one-character c
Remove(s, c) == SelectSeq(s, LAMBDA x : x # c)

\* c in s, for a one-character c
Contains(s, c) == \E i \in 1..Len(s) : s[i] = c

RECURSIVE NatStr(_)
NatStr(n) ==
    IF n < 10 THEN <<Digits[n + 1]>> ELSE NatStr(n \div 10) \o <<Digits[(n % 10) + 1]>>

RECURSIVE Pow10(_)
Pow10(n) == IF n = 0 THEN 1 ELSE 10 * Pow10(n - 1)

----------------------------------------------------------------------------
(* JSON values and dicts *)

JStr(s) == [t |-> "str", s |-> s, n |-> 0]

JNum(n) == [t |-> "num", s |-> <<>>, n |-> n]

\* str(v)
PyStr(v) == IF v.t = "str" THEN v.s ELSE NatStr(v.n)

HasKey(d, k) == \E i \in 1..Len(d) : d[i][1] = k

\* d.get(k, default)
Get(d, k, default) ==
    IF HasKey(d, k) THEN d[CHOOSE i \in 1..Len(d) : d[i][1] = k][2] ELSE default

\* d[k] = v
DictSet(d, k, v) ==
    IF HasKey(d, k)
    THEN [i \in 1..Len(d) |-> IF d[i][1] = k THEN <<k, v>> ELSE d[i]]
    ELSE Append(d, <<k, v>>)

----------------------------------------------------------------------------
(* Floats.  A float is a sign, a magnitude mant / 10^frac; the sign is kept *)
(* on a zero (-0.0).  Inputs stay within plain decimal literals: exponent   *)
(* forms, "inf", "nan" and digit-group underscores are not drawn.           *)

NoFloat == [ok |-> FALSE, neg |-> FALSE, mant |-> 0, frac |-> 0]

RECURSIVE DigitsVal(_)
DigitsVal(s) ==
    IF s = <<>> THEN 0
    ELSE 10 * DigitsVal(SubSeq(s, 1, Len(s) - 1)) + DigitVal(s[Len(s)])

\* float(s): ValueError is ok = FALSE
ParseFloat(s) ==
    LET t == Strip(s)
        signed == t # <<>> /\ t[1] \in {"+", "-"}
        body == IF signed THEN Tail(t) ELSE t
        dots == {i \in 1..Len(body) : body[i] = "."}
        digs == SelectSeq(body, IsDigit)
        valid == /\ Cardinality(dots) <= 1
                 /\ Len(digs) >= 1
                 /\ \A i \in 1..Len(body) : body[i] = "." \/ IsDigit(body[i])
    IN  IF valid
        THEN [ok |-> TRUE,
              neg |-> signed /\ t[1] = "-",
              mant |-> DigitsVal(digs),
              frac |-> IF dots = {} THEN 0 ELSE Len(body) - (CHOOSE i \in dots : TRUE)]
        ELSE NoFloat

\* x / 100
Div100(x) == [x EXCEPT !.frac = @ + 2]

\* x * y
Mul(x, y) ==
    [ok |-> TRUE, neg |-> x.neg # y.neg, mant |-> x.mant * y.mant, frac |-> x.frac + y.frac]

Signed(x, f) == (IF x.neg THEN -1 ELSE 1) * x.mant * Pow10(f - x.frac)

\* x + y
Add(x, y) ==
    LET f == IF x.frac > y.frac THEN x.frac ELSE y.frac
        s == Signed(x, f) + Signed(y, f)
    IN  [ok |-> TRUE,
         neg |-> s < 0 \/ (s = 0 /\ x.neg /\ y.neg),
         mant |-> IF s < 0 THEN -s ELSE s,
         frac |-> f]

\* round(x, 2): the values the double nearest to x can round to.  Off a tie
\* that is the nearest hundredth; on a decimal tie the double lies on either
\* side of it (round(0.015, 2) is 0.01, round(0.025, 2) is 0.03).
Round2(x) ==
    IF x.frac <= 2
    THEN {[x EXCEPT !.mant = @ * Pow10(2 - x.frac), !.frac = 2]}
    ELSE LET u == Pow10(x.frac - 2)
             q == x.mant \div u
             r == x.mant % u
         IN  {[x EXCEPT !.mant = m, !.frac = 2] :
                 m \in IF 2 * r < u THEN {q} ELSE IF 2 * r > u THEN {q + 1} ELSE {q, q + 1}}

\* str(x) of a float with two decimals: "10.0", "0.07", "-0.5"
FloatStr(x) ==
    LET whole == x.mant \div 100
        cents == x.mant % 100
    IN  (IF x.neg THEN <<"-">> ELSE <<>>)
        \o NatStr(whole) \o <<".">>
        \o (IF cents % 10 = 0 THEN <<Digits[(cents \div 10) + 1]>>
            ELSE <<Digits[(cents \div 10) + 1], Digits[(cents % 10) + 1]>>)

----------------------------------------------------------------------------
(* The process button handler: gate and tax calculation *)

\* The gate without strip(): value == "-".
RECURSIVE AllSentinelNoStrip(_, _)
AllSentinelNoStrip(d, i) ==
    IF i > Len(d) THEN "true"
    ELSE IF d[i][2].t # "str" THEN "raise"
    ELSE IF d[i][2].s # Dash THEN "false"
    ELSE AllSentinelNoStrip(d, i + 1)

\* all(value.strip() == "-" for value in invoice_data.values()), from the
\* i-th value on: "true", "false", or "raise" (AttributeError: a value that
\* is no string has no strip) -- all() stops at the first false value.
RECURSIVE AllSentinel(_, _)
AllSentinel(d, i) ==
    IF i > Len(d) THEN "true"
    ELSE IF d[i][2].t # "str" THEN "raise"
    ELSE IF Strip(d[i][2].s) # Dash THEN "false"
    ELSE AllSentinel(d, i + 1)

\* gross_value with a fallback of 0.0 instead of skipping the calculation.
GrossValueOrZero(d) ==
    LET x == ParseFloat(Remove(Remove(PyStr(Get(d, "gross_price", JStr(Dash))), ","), "$"))
    IN  IF x.ok THEN x ELSE [NoFloat EXCEPT !.ok = TRUE]

\* gross_value, or NoFloat when float() raises
GrossValue(d) ==
    ParseFloat(Remove(Remove(PyStr(Get(d, "gross_price", JStr(Dash))), ","), "$"))

TaxHasPercent(d) == Contains(PyStr(Get(d, "tax", JStr(Dash))), "%")

\* tax_percent, or NoFloat when float() raises
TaxPercent(d) == ParseFloat(Remove(PyStr(Get(d, "tax", JStr(Dash))), "%"))

\* tax_value without the division by 100.
TaxValuesNoDivision(d) == Round2(Mul(GrossValue(d), TaxPercent(d)))

\* tax_value = round(gross_value * (tax_percent / 100), 2)
TaxValues(d) == Round2(Mul(GrossValue(d), Div100(TaxPercent(d))))

\* round(gross_value + tax_value, 2)
TotalValues(d, tax_value) == Round2(Add(GrossValue(d), tax_value))

\* The tax calculation block: the dicts it can leave in invoice_data.
TaxCalculation(d) ==
    IF GrossValue(d).ok /\ TaxHasPercent(d) /\ TaxPercent(d).ok
    THEN {DictSet(DictSet(d, "tax", JStr(FloatStr(tv))), "total_price", JStr(FloatStr(tot))) :
             <<tv, tot>> \in {<<a, b>> \in TaxValues(d) \X
                                  UNION {TotalValues(d, c) : c \in TaxValues(d)} :
                                  b \in TotalValues(d, a)}}
    ELSE {d}

----------------------------------------------------------------------------
(* The worksheet (gspread calls made by update_google_sheet) *)

\* worksheet.get_all_values()
get_all_values(t) == t

\* worksheet.col_values(c)
col_values(t, c) == [i \in 1..Len(t) |-> t[i][c]]

\* worksheet.append_row(row)
append_row(t, row) == Append(t, row)

\* insert_row that writes over the row at index instead of pushing it down.
insert_rowOverwrite(t, row, index) ==
    SubSeq(t, 1, index - 1) \o <<row>> \o SubSeq(t, index + 1, Len(t))

\* worksheet.insert_row(row, index)
insert_row(t, row, index) == SubSeq(t, 1, index - 1) \o <<row>> \o SubSeq(t, index, Len(t))

\* worksheet.update_cell(r, c, value)
update_cell(t, r, c, value) == [t EXCEPT ![r][c] = value]

Call(op, row, index, col, value) ==
    [op |-> op, row |-> row, index |-> index, col |-> col, value |-> value]

\* The effect of one worksheet call on the rows.
Apply(t, call) ==
    CASE call.op = "append_row" -> append_row(t, call.row)
      [] call.op = "insert_row" -> insert_row(t, call.row, call.index)
      [] call.op = "update_cell" -> update_cell(t, call.index, call.col, call.value)
      [] OTHER -> t

RECURSIVE ApplyAll(_, _)
ApplyAll(t, calls) ==
    IF calls = <<>> THEN t ELSE ApplyAll(Apply(t, Head(calls)), Tail(calls))

----------------------------------------------------------------------------
(* update_google_sheet *)

\* Header assurance whose comparison never succeeds.
HeaderCallsAlways(rows) ==
    IF rows = <<>> THEN <<Call("append_row", headers, 0, 0, <<>>)>>
    ELSE <<Call("insert_row", headers, 1, 0, <<>>)>>

\* The calls of "ensure headers are set correctly", after get_all_values.
HeaderCalls(rows) ==
    IF rows = <<>> THEN <<Call("append_row", headers, 0, 0, <<>>)>>
    ELSE IF rows[1] # headers THEN <<Call("insert_row", headers, 1, 0, <<>>)>>
    ELSE <<>>

\* record = [...]: the five cell texts of invoice_data
Record(d) ==
    <<PyStr(Get(d, "invoice_number", JStr(Dash))),
      PyStr(Get(d, "customer_name", JStr(Dash))),
      PyStr(Get(d, "gross_price", JStr(Dash))),
      PyStr(Get(d, "tax", JStr(Dash))),
      PyStr(Get(d, "total_price", JStr(Dash)))>>

\* invoice_data.get("invoice_number") in existing_ids: None (a missing key)
\* and a number equal no cell text.
IdInIds(d, existing_ids) ==
    /\ HasKey(d, "invoice_number")
    /\ Get(d, "invoice_number", JStr(Dash)).t = "str"
    /\ \E i \in 1..Len(existing_ids) : existing_ids[i] = Get(d, "invoice_number", JStr(Dash)).s

\* The last matching row instead of the first.
RowIndexLast(d, existing_ids) ==
    CHOOSE i \in 1..Len(existing_ids) :
        /\ existing_ids[i] = Get(d, "invoice_number", JStr(Dash)).s
        /\ \A j \in (i + 1)..Len(existing_ids) :
              existing_ids[j] # Get(d, "invoice_number", JStr(Dash)).s

\* existing_ids.index(invoice_data["invoice_number"]) + 1
RowIndex(d, existing_ids) ==
    CHOOSE i \in 1..Len(existing_ids) :
        /\ existing_ids[i] = Get(d, "invoice_number", JStr(Dash)).s
        /\ \A j \in 1..(i - 1) : existing_ids[j] # Get(d, "invoice_number", JStr(Dash)).s

\* The calls of "update the row if invoice exists, else append", after col_values.
WriteCalls(d, existing_ids) ==
    IF IdInIds(d, existing_ids)
    THEN [c \in 1..NumCols |->
             Call("update_cell", <<>>, RowIndex(d, existing_ids), c, Record(d)[c])]
    ELSE <<Call("append_row", Record(d), 0, 0, <<>>)>>

\* Every backend call update_google_sheet makes on rows t when none fails.
PlannedCalls(t, d) ==
    LET hdr == HeaderCalls(get_all_values(t))
        existing_ids == col_values(ApplyAll(t, hdr), 1)
    IN  <<Call("open", <<>>, 0, 0, <<>>), Call("get_all_values", <<>>, 0, 0, <<>>)>>
        \o hdr
        \o <<Call("col_values", <<>>, 0, 1, <<>>)>>
        \o WriteCalls(d, existing_ids)

\* The calls that complete when the failAt-th call raises (0: none raises).
CompletedCalls(plan, failAt) ==
    IF failAt \in 1..Len(plan) THEN SubSeq(plan, 1, failAt - 1) ELSE plan

\* update_google_sheet that undoes its writes when a call raises.
update_google_sheetRollback(t, d, failAt) ==
    LET plan == PlannedCalls(t, d)
        done == CompletedCalls(plan, failAt)
    IN  [ok |-> Len(done) = Len(plan),
         result |-> IF Len(done) < Len(plan) THEN "exception"
                    ELSE IF plan[Len(plan)].op = "update_cell" THEN "updated"
                    ELSE "added",
         table |-> IF Len(done) < Len(plan) THEN t ELSE ApplyAll(t, done),
         calls |-> [i \in 1..Len(done) |-> done[i].op]]

\* update_google_sheet(invoice_data) on rows t: (success, action or error
\* text), the rows it leaves and the calls that completed.
update_google_sheet(t, d, failAt) ==
    LET plan == PlannedCalls(t, d)
        done == CompletedCalls(plan, failAt)
    IN  [ok |-> Len(done) = Len(plan),
         result |-> IF Len(done) < Len(plan) THEN "exception"
                    ELSE IF plan[Len(plan)].op = "update_cell" THEN "updated"
                    ELSE "added",
         table |-> ApplyAll(t, done),
         calls |-> [i \in 1..Len(done) |-> done[i].op]]

----------------------------------------------------------------------------
(* Inputs *)

S_A == <<"A">>

S_Acme == <<"A", "c", "m", "e">>

S_Bolt == <<"B", "o", "l", "t">>

\* A reply that json.loads parses to the dict d.
ObjectReply(d) == [kind |-> "object", obj |-> d]

\* The model raised instead of replying (or the image could not be opened).
RaisesReply == [kind |-> "raises", obj |-> <<>>]

\* A reply that is no JSON text.
NotJsonReply == [kind |-> "notjson", obj |-> <<>>]

\* A reply that is JSON but no object (a list, a number, null).
NonObjectReply == [kind |-> "nonobject", obj |-> <<>>]

NoReply == [kind |-> "none", obj |-> <<>>]

\* The dict of a reply with the five keys of Invoice, in schema order.
Invoice(invoice_number, customer_name, gross_price, tax, total_price) ==
    <<<<"invoice_number", invoice_number>>, <<"customer_name", customer_name>>,
      <<"gross_price", gross_price>>, <<"tax", tax>>, <<"total_price", total_price>>>>

GrossTexts ==
    {<<"1", "0", "0">>, <<"$", "1", ",", "0", "0", "0">>, <<"0", ".", "5">>, <<"N", "/", "A">>, <<"-">>}

TaxTexts ==
    {<<"1", "0", "%">>, <<"1", "%">>, <<"5">>, <<"x", "%">>, <<"-">>}

\* Replies drawn by Next: every gross and tax text under one invoice number,
\* the sentinel records, and replies off the schema.
Replies ==
    {RaisesReply, NotJsonReply, NonObjectReply}
    \cup {ObjectReply(Invoice(JStr(S_A), JStr(S_Acme), JStr(g), JStr(x), JStr(Dash))) :
             g \in GrossTexts, x \in TaxTexts}
    \cup {ObjectReply(Invoice(JStr(Dash), JStr(Dash), JStr(Dash), JStr(Dash), JStr(Dash))),
          ObjectReply(Invoice(JStr(Dash), JStr(<<" ", "-", " ">>), JStr(Dash), JStr(<<"-", " ">>), JStr(Dash))),
          ObjectReply(<<>>),
          ObjectReply(Invoice(JStr(S_A), JStr(S_Acme), JNum(100), JStr(<<"1", "0", "%">>), JStr(Dash))),
          ObjectReply(Invoice(JStr(Dash), JStr(Dash), JNum(100), JStr(Dash), JStr(Dash)))}

\* Replies with a string invoice number, under one price.
StringIdReplies ==
    {ObjectReply(Invoice(JStr(i), JStr(c), JStr(<<"1", "0", "0">>), JStr(<<"5">>), JStr(<<"1", "0", "5">>))) :
        i \in {S_A, Dash, S_InvoiceNumber}, c \in {S_Acme, S_Bolt}}

\* Replies drawn by NextSheet: those, a reply without the invoice_number key
\* and a reply whose invoice number is a JSON number.
SheetReplies ==
    StringIdReplies
    \cup {ObjectReply(<<<<"customer_name", JStr(S_Acme)>>>>),
          ObjectReply(Invoice(JNum(7), JStr(S_Acme), JStr(<<"1", "0", "0">>), JStr(Dash), JStr(Dash)))}

\* Replies drawn by NextBackend: an invoice number that is on the sheet, and
\* a reply without the invoice_number key.
BackendReplies ==
    {ObjectReply(Invoice(JStr(S_A), JStr(S_Bolt), JStr(<<"1", "0", "0">>), JStr(<<"5">>), JStr(<<"1", "0", "5">>))),
     ObjectReply(<<<<"customer_name", JStr(S_Acme)>>>>)}

RowA == <<S_A, S_Acme, <<"9", "0">>, <<"5">>, <<"9", "5">>>>

RowEdited == <<<<"I", "n", "v", "o", "i", "c", "e", " ", "N", "o">>, S_CustomerName, S_GrossPrice, S_Tax, S_TotalPrice>>

\* Sheets a user can have left behind: empty, header only, a record, a
\* duplicated record, an edited header row, no header row.
InitialTables ==
    {<<>>, <<headers>>, <<headers, RowA>>, <<headers, RowA, [RowA EXCEPT ![2] = S_Bolt]>>,
     <<RowEdited>>, <<RowEdited, RowA>>, <<RowA>>}

----------------------------------------------------------------------------
(* The process button handler *)

\* st.warning / st.error, then st.stop(): nothing reaches the sheet.
Halt(message) ==
    /\ ui' = message
    /\ invoice_data' = <<>>
    /\ sheet_result' = ""
    /\ api_calls' = <<>>
    /\ table' = table

\* update_google_sheet(invoice_data) and the display of its result.
UpdateAndShow(d, failAt) ==
    LET r == update_google_sheet(table, d, failAt)
    IN  /\ Len(r.table) <= MaxRows
        /\ invoice_data' = d
        /\ table' = r.table
        /\ sheet_result' = r.result
        /\ api_calls' = r.calls
        /\ ui' = IF r.ok THEN "success" ELSE "error_sheet"

\* Parse and validate without the inner except json.JSONDecodeError.
ParseAndValidateUncaught(reply) ==
    CASE reply.kind \in {"raises", "notjson", "nonobject"} -> "error_processing"
      [] OTHER ->
            CASE AllSentinel(reply.obj, 1) = "raise" -> "error_processing"
              [] AllSentinel(reply.obj, 1) = "true" -> "warning_cannot_extract"
              [] OTHER -> "pass"

\* From generate_content to the end of "parse and validate response JSON":
\* what is displayed before st.stop(), or "pass".  json.JSONDecodeError is
\* caught by the inner handler, every other exception by the outer one;
\* st.stop() itself passes through both.
ParseAndValidate(reply) ==
    CASE reply.kind = "raises" -> "error_processing"
      [] reply.kind = "notjson" -> "warning_cannot_extract"
      [] reply.kind = "nonobject" -> "error_processing"
      [] OTHER ->
            CASE AllSentinel(reply.obj, 1) = "raise" -> "error_processing"
              [] AllSentinel(reply.obj, 1) = "true" -> "warning_cannot_extract"
              [] OTHER -> "pass"

\* One press of "Process & Update Automatically".
Process(img, reply, failAt) ==
    /\ img_source' = img
    /\ response' = IF img THEN reply ELSE NoReply
    /\ IF ~img THEN Halt("warning_no_image")
       ELSE IF ParseAndValidate(reply) # "pass" THEN Halt(ParseAndValidate(reply))
       ELSE \E d \in TaxCalculation(reply.obj) :
                /\ failAt <= Len(PlannedCalls(table, d))
                /\ UpdateAndShow(d, failAt)

Init ==
    /\ table = <<>>
    /\ img_source = FALSE
    /\ response = NoReply
    /\ invoice_data = <<>>
    /\ ui = "idle"
    /\ sheet_result = ""
    /\ api_calls = <<>>

InitSheet ==
    /\ table \in InitialTables
    /\ img_source = FALSE
    /\ response = NoReply
    /\ invoice_data = <<>>
    /\ ui = "idle"
    /\ sheet_result = ""
    /\ api_calls = <<>>

\* The backend works or is unreachable (the first call raises).
Next ==
    \/ \E reply \in Replies, failAt \in 0..1 : Process(TRUE, reply, failAt)
    \/ Process(FALSE, NoReply, 0)

\* The backend works.
NextSheet == \E reply \in SheetReplies : Process(TRUE, reply, 0)

\* The backend works and every reply carries a string invoice number.
NextUpsert == \E reply \in StringIdReplies : Process(TRUE, reply, 0)

\* The backend works or raises at any one of its calls.
NextBackend == \E reply \in BackendReplies, failAt \in 0..(4 + NumCols) : Process(TRUE, reply, failAt)

\* The handler on an empty sheet, over replies of varied gross and tax.
Spec == Init /\ [][Next]_vars

\* Successful upserts on a sheet a user left behind.
SpecSheet == InitSheet /\ [][NextSheet]_vars

\* Successful upserts, one at a time, starting from an empty sheet.
SpecUpsert == Init /\ [][NextUpsert]_vars

\* Upserts on a sheet a user left behind, with a failing backend.
SpecBackend == InitSheet /\ [][NextBackend]_vars

----------------------------------------------------------------------------
(* Properties of the handler, checked under Spec *)

\* The last action parsed its reply to a dict.
ParsedObject == img_source /\ response.kind = "object"

\* The last action called update_google_sheet.
ReachedSheet == ui \in {"success", "error_sheet"}

\* Every value of d is a string that strips to "-".
EveryFieldIsSentinel(d) ==
    \A i \in 1..Len(d) : d[i][2].t = "str" /\ Strip(d[i][2].s) = Dash

\* Some value of d is a string that does not strip to "-", behind strings only.
SomeFieldIsData(d) ==
    \E i \in 1..Len(d) :
        /\ d[i][2].t = "str" /\ Strip(d[i][2].s) # Dash
        /\ \A j \in 1..(i - 1) : d[j][2].t = "str"

FieldText(d, k) == PyStr(Get(d, k, JStr(Dash)))

\* gross_price of d as a number, "," and "$" removed
GrossOf(d) == ParseFloat(Remove(Remove(FieldText(d, "gross_price"), ","), "$"))

\* tax of d as a number, "%" removed
PercentOf(d) == ParseFloat(Remove(FieldText(d, "tax"), "%"))

\* x in units of 10^-f
Scaled(x, f) == (IF x.neg THEN -1 ELSE 1) * x.mant * Pow10(f - x.frac)

Abs(n) == IF n < 0 THEN -n ELSE n

\* s is str() of a float with at most two decimals
IsFloatText(s) ==
    LET x == ParseFloat(s)
    IN  /\ x.ok /\ x.frac \in 1..2
        /\ s = FloatStr([x EXCEPT !.mant = @ * Pow10(2 - x.frac), !.frac = 2])

\* C1: when the parsed reply is a record whose every value strips to "-",
\* the action shows the "cannot be extracted" warning and stops: no tax
\* calculation, no call of update_google_sheet, the sheet as it was.
C1_SentinelRecordHalts ==
    [][(img_source' /\ response'.kind = "object" /\ EveryFieldIsSentinel(response'.obj))
          => /\ ui' = "warning_cannot_extract"
             /\ invoice_data' = <<>>
             /\ api_calls' = <<>>
             /\ table' = table]_vars

C1_Witness ==
    /\ ParsedObject /\ EveryFieldIsSentinel(response.obj)
    /\ \E i \in 1..Len(response.obj) : response.obj[i][2].s # Dash
    /\ ui = "warning_cannot_extract"
    /\ Len(table) = 2

\* C5: when gross_price is a number and tax has a "%" with a numeric rest p,
\* the dict handed to update_google_sheet has tax = str of a hundredth within
\* 0.005 of gross*p/100, total_price = str of a hundredth within 0.005 of
\* gross + that tax, and the other three fields as in the reply; gross "100"
\* and tax "10%" give tax "10.0" and total_price "110.0".
C5_PercentTaxIsComputed ==
    (ParsedObject /\ ReachedSheet
       /\ GrossOf(response.obj).ok
       /\ Contains(FieldText(response.obj, "tax"), "%")
       /\ PercentOf(response.obj).ok)
    => LET g == GrossOf(response.obj)
           p == PercentOf(response.obj)
           f == g.frac + p.frac + 2
           h == IF g.frac > 2 THEN g.frac ELSE 2
           newTax == ParseFloat(FieldText(invoice_data, "tax"))
           newTotal == ParseFloat(FieldText(invoice_data, "total_price"))
       IN  /\ IsFloatText(FieldText(invoice_data, "tax"))
           /\ IsFloatText(FieldText(invoice_data, "total_price"))
           /\ 2 * Abs(Scaled(newTax, f) - Scaled(g, g.frac) * Scaled(p, p.frac)) <= Pow10(f - 2)
           /\ 2 * Abs(Scaled(newTotal, h) - (Scaled(g, h) + Scaled(newTax, h))) <= Pow10(h - 2)
           /\ \A k \in {"invoice_number", "customer_name", "gross_price"} :
                 HasKey(invoice_data, k) = HasKey(response.obj, k)
                 /\ Get(invoice_data, k, JStr(Dash)) = Get(response.obj, k, JStr(Dash))
           /\ (FieldText(response.obj, "gross_price") = <<"1", "0", "0">>
                 /\ FieldText(response.obj, "tax") = <<"1", "0", "%">>)
              => (FieldText(invoice_data, "tax") = <<"1", "0", ".", "0">>
                    /\ FieldText(invoice_data, "total_price") = <<"1", "1", "0", ".", "0">>)

C5_Witness ==
    /\ ParsedObject /\ ui = "success"
    /\ FieldText(response.obj, "gross_price") = <<"$", "1", ",", "0", "0", "0">>
    /\ FieldText(response.obj, "tax") = <<"1", "0", "%">>
    /\ table = <<headers, <<S_A, S_Acme, <<"$", "1", ",", "0", "0", "0">>, <<"1", "0", "0", ".", "0">>, <<"1", "1", "0", "0", ".", "0">>>>>>

\* C6: when gross_price is no number (and the record passed the gate), the
\* dict handed to update_google_sheet is the reply's, the action goes on to
\* update_google_sheet and shows no processing error, and on success a row of
\* the sheet holds the reply's five fields.
C6_UnparsableGrossIsIdentity ==
    (ParsedObject /\ SomeFieldIsData(response.obj) /\ ~GrossOf(response.obj).ok)
    => /\ ReachedSheet
       /\ invoice_data = response.obj
       /\ ui = "success" => \E r \in 1..Len(table) : table[r] = Record(response.obj)

C6_Witness ==
    /\ ParsedObject /\ ui = "success"
    /\ FieldText(response.obj, "gross_price") = <<"N", "/", "A">>
    /\ FieldText(response.obj, "tax") = <<"1", "0", "%">>
    /\ table[2][4] = <<"1", "0", "%">>

\* A value of d that is no string.
HasNonString(d) == \E i \in 1..Len(d) : d[i][2].t # "str"

\* C7 as stated: every reply off the record shape (no JSON, JSON that is no
\* object, an object with a value that is no string) ends in the "cannot be
\* extracted" warning with the sheet as it was.
C7_OffShapeReplyWarns ==
    [][(img_source' /\ (\/ response'.kind \in {"notjson", "nonobject"}
                        \/ (response'.kind = "object" /\ HasNonString(response'.obj))))
          => (ui' = "warning_cannot_extract" /\ table' = table)]_vars

\* C7 amended: a reply that is no JSON ends in the "cannot be extracted"
\* warning with the sheet as it was; JSON that is no object ends in the
\* "Processing failed" error with the sheet as it was; an object with a value
\* that is no string ends in that error if the gate reaches the value, and
\* passes the gate if a string that is not the sentinel comes before it.
C7_OnlyNonJsonWarns ==
    [][img_source'
          => /\ response'.kind = "notjson"
                  => (ui' = "warning_cannot_extract" /\ api_calls' = <<>> /\ table' = table)
             /\ response'.kind = "nonobject"
                  => (ui' = "error_processing" /\ api_calls' = <<>> /\ table' = table)
             /\ (response'.kind = "object" /\ HasNonString(response'.obj))
                  => IF SomeFieldIsData(response'.obj)
                     THEN ui' \in {"success", "error_sheet"}
                     ELSE (ui' = "error_processing" /\ api_calls' = <<>> /\ table' = table)]_vars

C7_Witness ==
    /\ img_source /\ response = NotJsonReply
    /\ ui = "warning_cannot_extract"
    /\ Len(table) = 2

----------------------------------------------------------------------------
(* Properties of update_google_sheet *)

\* The rows after header assurance.
WithHeader(t) == IF t = <<>> \/ t[1] # headers THEN <<headers>> \o t ELSE t

\* The record's invoice_number is a string found in column 1 of t.
IdOnSheet(d, t) ==
    /\ HasKey(d, "invoice_number")
    /\ Get(d, "invoice_number", JStr(Dash)).t = "str"
    /\ \E i \in 1..Len(t) : t[i][1] = FieldText(d, "invoice_number")

\* The first row of t whose column 1 is the record's invoice_number.
FirstRowOf(d, t) ==
    CHOOSE i \in 1..Len(t) :
        /\ t[i][1] = FieldText(d, "invoice_number")
        /\ \A j \in 1..(i - 1) : t[j][1] # FieldText(d, "invoice_number")

FiveFields(d) ==
    <<FieldText(d, "invoice_number"), FieldText(d, "customer_name"),
      FieldText(d, "gross_price"), FieldText(d, "tax"), FieldText(d, "total_price")>>

Made(op) == \E i \in 1..Len(api_calls) : api_calls[i] = op

\* C2 as stated: a successful upsert on an empty sheet leaves the header and
\* the record, in this order, and reports "added".
C2_EmptySheetGetsHeaderAndRecord ==
    [][(table = <<>> /\ ui' = "success")
          => (table' = <<headers, FiveFields(invoice_data')>> /\ sheet_result' = "added")]_vars

\* C4 as stated: no two rows of the sheet have the same column 1.
C4_InvoiceNumberIsUnique ==
    \A i, j \in 1..Len(table) : table[i][1] = table[j][1] => i = j

\* C3: a successful upsert reports "updated" exactly when the record's invoice
\* number is in column 1 of the rows after header assurance; then the first
\* such row holds the record, the other rows and the row count are those
\* after header assurance; otherwise it reports "added" and the record is the
\* new last row.
C3_UpdatedIffIdOnSheet ==
    [][ui' = "success"
          => LET t1 == WithHeader(table)
                 d == invoice_data'
             IN  IF IdOnSheet(d, t1)
                 THEN /\ sheet_result' = "updated"
                      /\ table' = [t1 EXCEPT ![FirstRowOf(d, t1)] = FiveFields(d)]
                 ELSE /\ sheet_result' = "added"
                      /\ table' = Append(t1, FiveFields(d))]_vars

C3_Witness ==
    /\ ui = "success" /\ sheet_result = "updated"
    /\ Len(table) = 3
    /\ table[2][1] = table[3][1]
    /\ table[2] = FiveFields(invoice_data)
    /\ table[3] # table[2]

\* C10: a successful upsert deletes no row and changes at most one row that
\* was there: the old rows follow in their order, one lower if the header was
\* inserted, all alike but at most one, all alike if the record was added;
\* the sheet grows by at most 2 rows.
C10_OtherRowsAreKept ==
    [][ui' = "success"
          => LET shift == IF table # <<>> /\ table[1] # headers THEN 1 ELSE 0
                 changed == {i \in 1..Len(table) : table'[i + shift] # table[i]}
             IN  /\ Len(table') >= Len(table) + shift
                 /\ Len(table') <= Len(table) + 2
                 /\ Cardinality(changed) <= 1
                 /\ sheet_result' = "added" => changed = {}
                 /\ \A i \in changed : table'[i + shift] = FiveFields(invoice_data')]_vars

C10_Witness ==
    /\ ui = "success" /\ sheet_result = "updated"
    /\ Made("insert_row")
    /\ Len(table) = 3
    /\ table[3] = FiveFields(invoice_data)

\* C9 as stated: once a call has found row 1 different from the header and
\* inserted a header row, the next successful call inserts one as well.
C9_HeaderInsertedOnEveryCall ==
    [][(Made("insert_row") /\ ui' = "success")
          => \E i \in 1..Len(api_calls') : api_calls'[i] = "insert_row"]_vars

\* C9 amended: a successful call inserts a header row at position 1 exactly
\* when the sheet it reads is not empty and its row 1 differs from the
\* header; the old rows then lie one lower and row 1 holds the header, or the
\* record if its invoice number is the header's first cell; a call on a sheet
\* whose row 1 is the header inserts none.
C9_HeaderInsertedIffRowOneDiffers ==
    [][ui' = "success"
          => LET inserted == \E i \in 1..Len(api_calls') : api_calls'[i] = "insert_row"
             IN  /\ inserted <=> (table # <<>> /\ table[1] # headers)
                 /\ inserted
                      => /\ Len(table') >= Len(table) + 1
                         /\ table'[1] = IF FieldText(invoice_data', "invoice_number") = S_InvoiceNumber
                                           /\ IdOnSheet(invoice_data', <<headers>>)
                                        THEN FiveFields(invoice_data') ELSE headers]_vars

C9_Witness ==
    /\ ui = "success" /\ ~Made("insert_row")
    /\ Len(table) >= 2
    /\ table[1] = headers
    /\ table[2] = RowEdited

Count(op) == Cardinality({i \in 1..Len(api_calls) : api_calls[i] = op})

\* C8: a backend call that raises makes update_google_sheet return
\* (False, detail), shown as the sheet error; the writes made before it stay:
\* the header row if it was written, and the first cells of the matched row
\* as far as update_cell got, over the old cells of that row.
C8_FailureKeepsPartialWrites ==
    [][(ui' = "error_sheet")
          => LET k == Cardinality({i \in 1..Len(api_calls') : api_calls'[i] = "update_cell"})
                 hdr == \E i \in 1..Len(api_calls') : api_calls'[i] \in {"append_row", "insert_row"}
                 t1 == IF hdr THEN WithHeader(table) ELSE table
                 d == invoice_data'
             IN  /\ sheet_result' = "exception"
                 /\ IF k = 0 THEN table' = t1
                    ELSE table' = [t1 EXCEPT ![FirstRowOf(d, t1)] =
                                      [c \in 1..NumCols |-> IF c <= k THEN FiveFields(d)[c] ELSE @[c]]]]_vars

\* The header was inserted, two cells of the matched row are new, three old.
C8_Witness ==
    /\ ui = "error_sheet"
    /\ Made("insert_row")
    /\ Count("update_cell") = 2
    /\ \E r \in 1..Len(table) :
          /\ table[r][1] = S_A /\ table[r][2] = S_Bolt
          /\ table[r][3] = RowA[3] /\ table[r][3] # FiveFields(invoice_data)[3]

====
